---------------------------- MODULE Spec2Model ----------------------------
(***************************************************************************)
(* Model of PeptideLinkerBuilder (utility/PepLinkPep2SMILES.py): the       *)
(* residue table, sequence validation, attachment-point parsing, peptide   *)
(* chain rendering, the two connection strategies, the amide conversion    *)
(* and build_structure_info.                                               *)
(*                                                                         *)
(* A Python str is modelled as a sequence of one-character strings, so     *)
(* that `in`, rfind, replace, startswith and slicing are computed          *)
(* character by character as Python computes them.                         *)
(***************************************************************************)
EXTENDS Integers, Sequences, FiniteSets, TLC

VARIABLES pc, sequence, n_terminal_seq, linker_smiles, c_terminal_seq,
          NH2_endpoint, remove_n, method, smiles, result

vars == <<pc, sequence, n_terminal_seq, linker_smiles, c_terminal_seq,
          NH2_endpoint, remove_n, method, smiles, result>>

-----------------------------------------------------------------------------
(* Python str primitives *)

\* Python's None. The code only tests n_attachment / c_attachment for
\* truthiness, where None and the empty str behave alike.
None == << >>

\* Python truthiness of a str or None
Truthy(x) == x # None

\* s[a:b] with 0 <= a, Python slice semantics
Slice(s, a, b) == SubSeq(s, a + 1, IF b > Len(s) THEN Len(s) ELSE b)

\* s[a:]
SliceFrom(s, a) == SubSeq(s, a + 1, Len(s))

\* sub occurs in s at 0-based index i
MatchAt(s, sub, i) ==
    /\ i >= 0
    /\ i + Len(sub) <= Len(s)
    /\ \A k \in 1..Len(sub) : s[i + k] = sub[k]

\* `sub in s`
In(sub, s) == \E i \in 0..Len(s) : MatchAt(s, sub, i)

\* s.startswith(prefix)
startswith(s, prefix) == MatchAt(s, prefix, 0)

RECURSIVE RFindFrom(_, _, _)
RFindFrom(s, sub, i) ==
    IF i < 0 THEN -1
    ELSE IF MatchAt(s, sub, i) THEN i
    ELSE RFindFrom(s, sub, i - 1)

\* s.rfind(sub): the highest index at which sub occurs, -1 if none
rfind(s, sub) == RFindFrom(s, sub, Len(s) - Len(sub))

RECURSIVE FindFrom(_, _, _)
FindFrom(s, sub, i) ==
    IF i + Len(sub) > Len(s) THEN -1
    ELSE IF MatchAt(s, sub, i) THEN i
    ELSE FindFrom(s, sub, i + 1)

\* s.replace(old, new) for a non-empty old: one left-to-right pass over
\* the non-overlapping occurrences of old; the inserted text is not rescanned
RECURSIVE replace(_, _, _)
replace(s, old, new) ==
    LET i == FindFrom(s, old, 0) IN
    IF i = -1 THEN s
    ELSE Slice(s, 0, i) \o new \o replace(SliceFrom(s, i + Len(old)), old, new)

-----------------------------------------------------------------------------
(* __init__ : the residue table *)

amino_acid_sidechains ==
    ("A" :> <<"C">>) @@
    ("R" :> <<"C", "C", "C", "N", "C", "(", "=", "N", ")", "N">>) @@
    ("N" :> <<"C", "C", "(", "=", "O", ")", "N">>) @@
    ("D" :> <<"C", "C", "(", "=", "O", ")", "O">>) @@
    ("C" :> <<"C", "S">>) @@
    ("E" :> <<"C", "C", "C", "(", "=", "O", ")", "O">>) @@
    ("Q" :> <<"C", "C", "C", "(", "=", "O", ")", "N">>) @@
    ("G" :> <<>>) @@
    ("H" :> <<"C", "C", "1", "=", "C", "N", "C", "=", "N", "1">>) @@
    ("I" :> <<"C", "(", "C", ")", "C", "C">>) @@
    ("L" :> <<"C", "C", "(", "C", ")", "C">>) @@
    ("K" :> <<"C", "C", "C", "C", "N">>) @@
    ("M" :> <<"C", "C", "S", "C">>) @@
    ("F" :> <<"C", "C", "1", "=", "C", "C", "=", "C", "C", "=", "C", "1">>) @@
    ("P" :> <<>>) @@
    ("S" :> <<"C", "O">>) @@
    ("T" :> <<"C", "(", "C", ")", "O">>) @@
    ("W" :> <<"C", "C", "1", "=", "C", "N", "C", "2", "=", "C", "C", "=", "C", "C", "=", "C", "2", "1">>) @@
    ("Y" :> <<"C", "C", "1", "=", "C", "C", "=", "C", "(", "C", "=", "C", "1", ")", "O">>) @@
    ("V" :> <<"C", "(", "C", ")", "C">>)

-----------------------------------------------------------------------------
(* validate_sequence *)

\* [aa for aa in sequence if aa not in self.amino_acid_sidechains]
RECURSIVE InvalidResidues(_)
InvalidResidues(seq) ==
    IF seq = << >> THEN << >>
    ELSE (IF Head(seq) \notin DOMAIN amino_acid_sidechains
          THEN <<Head(seq)>> ELSE << >>) \o InvalidResidues(Tail(seq))

\* the same comprehension keeping only the first occurrence of each character
RECURSIVE InvalidResiduesOnce(_, _)
InvalidResiduesOnce(seq, seen) ==
    IF seq = << >> THEN << >>
    ELSE IF Head(seq) \notin DOMAIN amino_acid_sidechains /\ Head(seq) \notin seen
         THEN <<Head(seq)>> \o InvalidResiduesOnce(Tail(seq), seen \cup {Head(seq)})
         ELSE InvalidResiduesOnce(Tail(seq), seen)

validate_sequence_once(seq) ==
    IF seq = << >> THEN [exception |-> "None", args |-> << >>]
    ELSE LET invalid_residues == InvalidResiduesOnce(seq, {}) IN
         IF invalid_residues # << >>
         THEN [exception |-> "ValueError", args |-> invalid_residues]
         ELSE [exception |-> "None", args |-> << >>]

\* Returns True (exception "None") or raises ValueError carrying the list
validate_sequence(seq) ==
    IF seq = << >> THEN [exception |-> "None", args |-> << >>]
    ELSE LET invalid_residues == InvalidResidues(seq) IN
         IF invalid_residues # << >>
         THEN [exception |-> "ValueError", args |-> invalid_residues]
         ELSE [exception |-> "None", args |-> << >>]

-----------------------------------------------------------------------------
(* build_peptide_chain_for_connection *)

\* len(sequence) == 1
SingleResidue(aa, connection_type) ==
    LET sidechain == amino_acid_sidechains[aa] IN
    IF connection_type = "n_terminal"
    THEN IF aa = "P" THEN <<"N", "1", "C", "C", "C", "[", "C", "H", "]", "1", "C", "(", "=", "O", ")">>
         ELSE IF aa = "G" THEN <<"N", "C", "C", "(", "=", "O", ")">>
         ELSE <<"N", "[", "C", "H", "]", "(">> \o sidechain \o <<")", "C", "(", "=", "O", ")">>
    ELSE IF aa = "P" THEN <<"N", "1", "C", "C", "C", "[", "C", "H", "]", "1", "C", "(", "=", "O", ")", "O">>
         ELSE IF aa = "G" THEN <<"N", "C", "C", "(", "=", "O", ")", "O">>
         ELSE <<"N", "[", "C", "H", "]", "(">> \o sidechain \o <<")", "C", "(", "=", "O", ")", "O">>

\* the C-side first residue written with the free-carboxyl template of the
\* last residue
FirstResidueCarboxyl(aa, connection_type) ==
    LET sidechain == amino_acid_sidechains[aa] IN
    IF connection_type = "n_terminal"
    THEN IF aa = "P" THEN <<"N", "1", "C", "C", "C", "[", "C", "H", "]", "1", "C", "(", "=", "O", ")">>
         ELSE IF aa = "G" THEN <<"N", "C", "C", "(", "=", "O", ")">>
         ELSE <<"N", "[", "C", "H", "]", "(">> \o sidechain \o <<")", "C", "(", "=", "O", ")">>
    ELSE IF aa = "P" THEN <<"N", "1", "C", "C", "C", "[", "C", "H", "]", "1", "C", "(", "=", "O", ")", "O">>
         ELSE IF aa = "G" THEN <<"N", "C", "C", "(", "=", "O", ")", "O">>
         ELSE <<"N", "[", "C", "H", "]", "(">> \o sidechain \o <<")", "C", "(", "=", "O", ")", "O">>

\* i == 0
FirstResidue(aa, connection_type) ==
    LET sidechain == amino_acid_sidechains[aa] IN
    IF connection_type = "n_terminal"
    THEN IF aa = "P" THEN <<"N", "1", "C", "C", "C", "[", "C", "H", "]", "1", "C", "(", "=", "O", ")">>
         ELSE IF aa = "G" THEN <<"N", "C", "C", "(", "=", "O", ")">>
         ELSE <<"N", "[", "C", "H", "]", "(">> \o sidechain \o <<")", "C", "(", "=", "O", ")">>
    ELSE IF aa = "P" THEN <<"N", "1", "C", "C", "C", "[", "C", "H", "]", "1", "C", "(", "=", "O", ")">>
         ELSE IF aa = "G" THEN <<"N", "C", "C", "(", "=", "O", ")">>
         ELSE <<"N", "[", "C", "H", "]", "(">> \o sidechain \o <<")", "C", "(", "=", "O", ")">>

\* i == len(sequence) - 1
LastResidue(aa, connection_type) ==
    LET sidechain == amino_acid_sidechains[aa] IN
    IF connection_type = "n_terminal"
    THEN IF aa = "P" THEN <<"N", "1", "C", "C", "C", "[", "C", "H", "]", "1", "C", "(", "=", "O", ")">>
         ELSE IF aa = "G" THEN <<"N", "C", "C", "(", "=", "O", ")">>
         ELSE <<"N", "[", "C", "H", "]", "(">> \o sidechain \o <<")", "C", "(", "=", "O", ")">>
    ELSE IF aa = "P" THEN <<"N", "1", "C", "C", "C", "[", "C", "H", "]", "1", "C", "(", "=", "O", ")", "O">>
         ELSE IF aa = "G" THEN <<"N", "C", "C", "(", "=", "O", ")", "O">>
         ELSE <<"N", "[", "C", "H", "]", "(">> \o sidechain \o <<")", "C", "(", "=", "O", ")", "O">>

\* every other position
MiddleResidue(aa) ==
    LET sidechain == amino_acid_sidechains[aa] IN
    IF aa = "P" THEN <<"N", "1", "C", "C", "C", "[", "C", "H", "]", "1", "C", "(", "=", "O", ")">>
    ELSE IF aa = "G" THEN <<"N", "C", "C", "(", "=", "O", ")">>
    ELSE <<"N", "[", "C", "H", "]", "(">> \o sidechain \o <<")", "C", "(", "=", "O", ")">>

\* ''.join(peptide_parts) for the residues at 0-based positions i, i+1, ...
RECURSIVE peptide_parts(_, _, _)
peptide_parts(seq, connection_type, i) ==
    IF i >= Len(seq) THEN << >>
    ELSE LET aa == seq[i + 1]
             part == IF i = 0 THEN FirstResidue(aa, connection_type)
                     ELSE IF i = Len(seq) - 1 THEN LastResidue(aa, connection_type)
                     ELSE MiddleResidue(aa)
         IN  part \o peptide_parts(seq, connection_type, i + 1)

\* Defined for sequences of table keys; see KeyErrorOf for the others
build_peptide_chain_for_connection(seq, connection_type) ==
    IF seq = << >> THEN << >>
    ELSE IF Len(seq) = 1 THEN SingleResidue(seq[1], connection_type)
    ELSE peptide_parts(seq, connection_type, 0)

-----------------------------------------------------------------------------
(* convert_last_carboxyl_to_amide *)

pattern == <<"C", "(", "=", "O", ")", "O">>

\* the same conversion taking the first occurrence of the pattern (find)
convert_first_carboxyl_to_amide(s) ==
    LET last_index == FindFrom(s, pattern, 0) IN
    IF last_index # -1
    THEN LET o_pos == last_index + Len(pattern) - 1 IN
         Slice(s, 0, o_pos) \o <<"N">> \o SliceFrom(s, o_pos + 1)
    ELSE s

\* the same conversion dropping the hydroxyl 'O' without writing the 'N'
convert_last_carboxyl_dropping(s) ==
    LET last_index == rfind(s, pattern) IN
    IF last_index # -1
    THEN LET o_pos == last_index + Len(pattern) - 1 IN
         Slice(s, 0, o_pos) \o SliceFrom(s, o_pos + 1)
    ELSE s

convert_last_carboxyl_to_amide(s) ==
    LET last_index == rfind(s, pattern) IN
    IF last_index # -1
    THEN LET o_pos == last_index + Len(pattern) - 1 IN
         Slice(s, 0, o_pos) \o <<"N">> \o SliceFrom(s, o_pos + 1)
    ELSE s

-----------------------------------------------------------------------------
(* parse_linker_attachment_points *)

star1 == <<"[", "*", "1", "]">>
star2 == <<"[", "*", "2", "]">>

parse_linker_attachment_points(linker) ==
    LET has_star1 == In(star1, linker)
        has_star2 == In(star2, linker)
    IN  IF has_star1 \/ has_star2
        THEN [linker |-> linker,
              n_attachment |-> IF has_star1 THEN star1 ELSE None,
              c_attachment |-> IF has_star2 THEN star2 ELSE None,
              has_explicit_points |-> TRUE]
        ELSE [linker |-> linker,
              n_attachment |-> None,
              c_attachment |-> None,
              has_explicit_points |-> FALSE]

-----------------------------------------------------------------------------
(* connect_with_explicit_points *)

\* connected_smiles after the N-side attachment point is handled
AfterNPoint(n_peptide_seq, linker_info) ==
    LET linker == linker_info.linker
        n_point == linker_info.n_attachment
        n_peptide == IF Truthy(n_peptide_seq)
                     THEN build_peptide_chain_for_connection(n_peptide_seq, "n_terminal")
                     ELSE << >>
    IN  IF Truthy(n_point) /\ Truthy(n_peptide) THEN replace(linker, n_point, n_peptide)
        ELSE IF Truthy(n_point) /\ ~Truthy(n_peptide) THEN replace(linker, n_point, << >>)
        ELSE linker

\* the same choice made without reading remove_n
CPeptideToInsertAlways(c_peptide, linker_info, remove_n_flag) ==
    IF In(<<"N">> \o linker_info.c_attachment, linker_info.linker)
    THEN IF startswith(c_peptide, <<"N">>) THEN SliceFrom(c_peptide, 1) ELSE c_peptide
    ELSE c_peptide

\* the text written in place of c_point when c_point and c_peptide are truthy
CPeptideToInsert(c_peptide, linker_info, remove_n_flag) ==
    IF remove_n_flag = "True" /\ In(<<"N">> \o linker_info.c_attachment, linker_info.linker)
    THEN IF startswith(c_peptide, <<"N">>) THEN SliceFrom(c_peptide, 1) ELSE c_peptide
    ELSE c_peptide

connect_with_explicit_points(n_peptide_seq, linker_info, c_peptide_seq, remove_n_flag) ==
    LET c_point == linker_info.c_attachment
        c_peptide == IF Truthy(c_peptide_seq)
                     THEN build_peptide_chain_for_connection(c_peptide_seq, "c_terminal")
                     ELSE << >>
        connected_smiles == AfterNPoint(n_peptide_seq, linker_info)
    IN  IF Truthy(c_point) /\ Truthy(c_peptide)
        THEN replace(connected_smiles, c_point,
                     CPeptideToInsert(c_peptide, linker_info, remove_n_flag))
        ELSE IF Truthy(c_point) /\ ~Truthy(c_peptide)
        THEN replace(connected_smiles, c_point, << >>)
        ELSE connected_smiles

-----------------------------------------------------------------------------
(* build_direct_connection, build_with_preserved_linker, build_structure_info *)

\* A call that returns v / a call that raises exception e with argument a
Returned(v) == [exception |-> "None", args |-> << >>, value |-> v]
Raised(e, a) == [exception |-> e, args |-> a, value |-> << >>]

\* self.amino_acid_sidechains[aa] raises KeyError(aa) at the first residue of
\* the sequence that is no key of the table; None when every lookup succeeds
MissingKey(seq) ==
    IF InvalidResidues(seq) = << >> THEN None ELSE <<Head(InvalidResidues(seq))>>

build_direct_connection(n_seq, linker, c_seq) ==
    IF MissingKey(n_seq) # None THEN Raised("KeyError", MissingKey(n_seq))
    ELSE IF MissingKey(c_seq) # None THEN Raised("KeyError", MissingKey(c_seq))
    ELSE LET n_peptide == build_peptide_chain_for_connection(n_seq, "n_terminal")
             c_peptide == build_peptide_chain_for_connection(c_seq, "c_terminal")
         IN  Returned(n_peptide \o linker \o c_peptide)

\* the same function handing every linker to connect_with_explicit_points
build_with_preserved_linker_forced(n_seq, linker_with_points, c_seq, remove_n_flag) ==
    IF Truthy(n_seq) /\ validate_sequence(n_seq).exception # "None"
    THEN Raised("ValueError", validate_sequence(n_seq).args)
    ELSE IF Truthy(c_seq) /\ validate_sequence(c_seq).exception # "None"
    THEN Raised("ValueError", validate_sequence(c_seq).args)
    ELSE Returned(connect_with_explicit_points(
                      n_seq, parse_linker_attachment_points(linker_with_points),
                      c_seq, remove_n_flag))

build_with_preserved_linker(n_seq, linker_with_points, c_seq, remove_n_flag) ==
    IF Truthy(n_seq) /\ validate_sequence(n_seq).exception # "None"
    THEN Raised("ValueError", validate_sequence(n_seq).args)
    ELSE IF Truthy(c_seq) /\ validate_sequence(c_seq).exception # "None"
    THEN Raised("ValueError", validate_sequence(c_seq).args)
    ELSE LET linker_info == parse_linker_attachment_points(linker_with_points) IN
         IF linker_info.has_explicit_points
         THEN Returned(connect_with_explicit_points(n_seq, linker_info, c_seq,
                                                    remove_n_flag))
         ELSE build_direct_connection(n_seq, linker_with_points, c_seq)

\* The returned dict: the info record, or {'error': str(e)} for any exception
build_structure_info(n_seq, linker, c_seq, NH2, remove_n_flag, how) ==
    LET call ==
            IF how = "auto"
            THEN IF In(<<"[", "*">>, linker)
                 THEN [out |-> build_with_preserved_linker(n_seq, linker, c_seq,
                                                           remove_n_flag),
                       used_method |-> "explicit_attachment_preserved"]
                 ELSE [out |-> build_direct_connection(n_seq, linker, c_seq),
                       used_method |-> "direct_connection_preserved"]
            ELSE IF how = "preserved"
            THEN [out |-> build_with_preserved_linker(n_seq, linker, c_seq,
                                                      remove_n_flag),
                  used_method |-> "preserved_linker_structure"]
            ELSE [out |-> build_direct_connection(n_seq, linker, c_seq),
                  used_method |-> "direct_connection_preserved"]
    IN  IF call.out.exception # "None"
        THEN [kind |-> "error",
              error |-> [exception |-> call.out.exception, args |-> call.out.args]]
        ELSE [kind |-> "info",
              n_terminal_sequence |-> n_seq,
              linker_smiles |-> linker,
              c_terminal_sequence |-> c_seq,
              total_structure_smiles |->
                  IF NH2 = "True"
                  THEN convert_last_carboxyl_to_amide(call.out.value)
                  ELSE call.out.value,
              method_used |-> call.used_method,
              total_aa_length |-> Len(n_seq) + Len(c_seq)]

-----------------------------------------------------------------------------
(* Input sets *)

MaxSeqLen == 3

RECURSIVE SeqsUpTo(_, _)
SeqsUpTo(S, n) ==
    IF n = 0 THEN {<< >>}
    ELSE LET shorter == SeqsUpTo(S, n - 1) IN
         shorter \cup {Append(s, c) : s \in {t \in shorter : Len(t) = n - 1}, c \in S}

\* two table keys and two characters outside the table
ValidateChars == {"A", "G", "X", "Z"}

Idle == [kind |-> "none"]

\* the variables an operation does not read
Unused == << >>

-----------------------------------------------------------------------------
(* Specification of validate_sequence alone *)

InitValidate ==
    /\ pc = "start"
    /\ sequence \in SeqsUpTo(ValidateChars, MaxSeqLen)
    /\ n_terminal_seq = Unused /\ linker_smiles = Unused /\ c_terminal_seq = Unused
    /\ NH2_endpoint = "False" /\ remove_n = "False" /\ method = "auto"
    /\ smiles = Unused
    /\ result = Idle

Validate ==
    /\ pc = "start"
    /\ pc' = "done"
    /\ result' = [kind |-> "validate"] @@ validate_sequence(sequence)
    /\ UNCHANGED <<sequence, n_terminal_seq, linker_smiles, c_terminal_seq,
                   NH2_endpoint, remove_n, method, smiles>>

NextValidate == Validate

SpecValidate == InitValidate /\ [][NextValidate]_vars

\* the 1-based positions of sequence holding a character outside the table
UnknownPositions(seq) ==
    {i \in 1..Len(seq) : seq[i] \notin DOMAIN amino_acid_sidechains}

\* the k-th smallest element of a finite set of naturals
Kth(S, k) == CHOOSE x \in S : Cardinality({y \in S : y <= x}) = k

\* C1 (as claimed): a sequence of table keys validates; any other sequence
\* fails, reporting the unknown characters each once, in order of first
\* appearance
C1_AsClaimed ==
    pc = "done" =>
        LET U == UnknownPositions(sequence)
            firsts == {i \in U : \A j \in U : j < i => sequence[j] # sequence[i]}
        IN  IF U = {} THEN result.exception = "None"
            ELSE /\ result.exception = "ValueError"
                 /\ Len(result.args) = Cardinality(firsts)
                 /\ \A k \in 1..Len(result.args) :
                        result.args[k] = sequence[Kth(firsts, k)]

\* C1 (amended): a sequence of table keys validates; any other sequence
\* fails, reporting every occurrence of an unknown character, in input order
C1_Validate ==
    pc = "done" =>
        LET U == UnknownPositions(sequence) IN
        IF U = {} THEN result.exception = "None"
        ELSE /\ result.exception = "ValueError"
             /\ Len(result.args) = Cardinality(U)
             /\ \A k \in 1..Len(result.args) :
                    result.args[k] = sequence[Kth(U, k)]

C1_Witness ==
    /\ pc = "done"
    /\ result.exception = "ValueError"
    /\ \E i, j \in UnknownPositions(sequence) : i < j /\ sequence[i] = sequence[j]
    /\ \E i \in 1..Len(sequence) : sequence[i] \in DOMAIN amino_acid_sidechains

-----------------------------------------------------------------------------
(* Specification of build_peptide_chain_for_connection alone *)

Residues == DOMAIN amino_acid_sidechains

InitRender ==
    /\ pc = "start"
    /\ sequence \in SeqsUpTo(Residues, MaxSeqLen)
    /\ n_terminal_seq = Unused /\ linker_smiles = Unused /\ c_terminal_seq = Unused
    /\ NH2_endpoint = "False" /\ remove_n = "False" /\ method = "auto"
    /\ smiles = Unused
    /\ result = [kind |-> "chain", n_done |-> FALSE, n_terminal |-> << >>,
                 c_done |-> FALSE, c_terminal |-> << >>]

RenderN ==
    /\ pc = "start"
    /\ ~result.n_done
    /\ result' = [result EXCEPT !.n_done = TRUE,
                    !.n_terminal = build_peptide_chain_for_connection(sequence, "n_terminal")]
    /\ UNCHANGED <<pc, sequence, n_terminal_seq, linker_smiles, c_terminal_seq,
                   NH2_endpoint, remove_n, method, smiles>>

RenderC ==
    /\ pc = "start"
    /\ ~result.c_done
    /\ result' = [result EXCEPT !.c_done = TRUE,
                    !.c_terminal = build_peptide_chain_for_connection(sequence, "c_terminal")]
    /\ UNCHANGED <<pc, sequence, n_terminal_seq, linker_smiles, c_terminal_seq,
                   NH2_endpoint, remove_n, method, smiles>>

NextRender == RenderN \/ RenderC

SpecRender == InitRender /\ [][NextRender]_vars

\* the fragment the claim gives for one residue, whatever its position
FragmentOf(aa) ==
    IF aa = "G" THEN <<"N", "C", "C", "(", "=", "O", ")">>
    ELSE IF aa = "P" THEN <<"N", "1", "C", "C", "C", "[", "C", "H", "]", "1", "C", "(", "=", "O", ")">>
    ELSE <<"N", "[", "C", "H", "]", "(">> \o amino_acid_sidechains[aa] \o <<")", "C", "(", "=", "O", ")">>

RECURSIVE ConcatFragments(_)
ConcatFragments(seq) ==
    IF seq = << >> THEN << >> ELSE FragmentOf(Head(seq)) \o ConcatFragments(Tail(seq))

\* C2: the N-side render of a sequence of table keys is the in-order
\* concatenation of one fragment per residue; the C-side render is the same
\* text followed by exactly one 'O' when the sequence is non-empty; the empty
\* sequence renders to the empty string for both roles
C2_Render ==
    /\ result.n_done => result.n_terminal = ConcatFragments(sequence)
    /\ result.c_done =>
          result.c_terminal =
             ConcatFragments(sequence) \o (IF sequence = << >> THEN << >> ELSE <<"O">>)

C2_Witness ==
    /\ result.n_done /\ result.c_done
    /\ Len(sequence) >= 3
    /\ sequence[1] = "G" /\ sequence[2] = "P" /\ sequence[3] \notin {"G", "P"}
    /\ result.c_terminal = result.n_terminal \o <<"O">>

-----------------------------------------------------------------------------
(* Specification of convert_last_carboxyl_to_amide, applied once and twice *)

MaxAmidePieces == 3

RECURSIVE Joined(_, _)
\* the concatenations of at most n texts of P
Joined(P, n) ==
    IF n = 0 THEN {<< >>}
    ELSE LET shorter == Joined(P, n - 1) IN
         shorter \cup {s \o p : s \in shorter, p \in P}

AmidePieces == {<<"C", "(", "=", "O", ")", "O">>, <<"C", "(", "=", "O", ")">>, <<"O">>, <<"N">>, <<"C">>}

InitAmide ==
    /\ pc = "start"
    /\ smiles \in Joined(AmidePieces, MaxAmidePieces)
    /\ sequence = Unused
    /\ n_terminal_seq = Unused /\ linker_smiles = Unused /\ c_terminal_seq = Unused
    /\ NH2_endpoint = "True" /\ remove_n = "False" /\ method = "auto"
    /\ result = [kind |-> "amide", input |-> smiles, before |-> smiles]

Amidate ==
    /\ pc \in {"start", "once"}
    /\ pc' = IF pc = "start" THEN "once" ELSE "twice"
    /\ smiles' = convert_last_carboxyl_to_amide(smiles)
    /\ result' = [result EXCEPT !.before = smiles]
    /\ UNCHANGED <<sequence, n_terminal_seq, linker_smiles, c_terminal_seq,
                   NH2_endpoint, remove_n, method>>

NextAmide == Amidate

SpecAmide == InitAmide /\ [][NextAmide]_vars

\* the 0-based indices at which 'C(=O)O' occurs in s
Occurrences(s) == {i \in 0..Len(s) : MatchAt(s, pattern, i)}

Max(S) == CHOOSE x \in S : \A y \in S : y <= x

\* C6: when 'C(=O)O' occurs, the result has the length of the input and
\* differs from it in exactly one position, the final 'O' of the right-most
\* occurrence, which becomes 'N'; otherwise the result equals the input
C6_Amide ==
    pc # "start" =>
        LET x == result.before
            y == smiles
        IN  IF Occurrences(x) = {} THEN y = x
            ELSE LET o == Max(Occurrences(x)) + Len(pattern) IN
                 /\ Len(y) = Len(x)
                 /\ x[o] = "O" /\ y[o] = "N"
                 /\ \A k \in 1..Len(x) : k # o => y[k] = x[k]
                 /\ \A i \in Occurrences(x) : i + Len(pattern) # o => MatchAt(y, pattern, i)

C6_Witness ==
    /\ pc = "once"
    /\ Cardinality(Occurrences(result.before)) >= 2
    /\ Cardinality(Occurrences(smiles)) = Cardinality(Occurrences(result.before)) - 1
    /\ smiles # result.before

\* C9: for an input in which 'C(=O)O' occurs at most once, applying the
\* conversion a second time changes nothing
C9_Idempotent ==
    (pc = "twice" /\ Cardinality(Occurrences(result.input)) <= 1) =>
        smiles = result.before

C9_Witness ==
    /\ pc = "twice"
    /\ Cardinality(Occurrences(result.input)) = 1
    /\ result.before # result.input
    /\ smiles = result.before

\* Settles the question C9 leaves open: with two or more occurrences the
\* second application rewrites an earlier occurrence
C9_TwoOccurrencesChangeAgain ==
    (pc = "twice" /\ Cardinality(Occurrences(result.input)) >= 2) =>
        /\ smiles # result.before
        /\ Cardinality(Occurrences(smiles)) = Cardinality(Occurrences(result.input)) - 2

-----------------------------------------------------------------------------
(* Specification of connect_with_explicit_points on validated sequences *)

MaxTermLen == 1
MaxLinkerPieces == 3

\* a residue with a fixed backbone fragment and one with a side chain
ConnectResidues == {"G", "A"}

\* the two markers, linker atoms, and the two halves of a marker
LinkerPieces == {star1, star2, <<"N">>, <<"C">>, <<"[", "*">>, <<"1", "]">>}

Flags == {"True", "False"}

InitConnect ==
    /\ pc = "start"
    /\ n_terminal_seq \in SeqsUpTo(ConnectResidues, MaxTermLen)
    /\ c_terminal_seq \in SeqsUpTo(ConnectResidues, MaxTermLen)
    /\ linker_smiles \in Joined(LinkerPieces, MaxLinkerPieces)
    /\ remove_n \in Flags
    /\ NH2_endpoint = "False" /\ method = "preserved"
    /\ sequence = Unused /\ smiles = Unused
    /\ result = Idle

Connect ==
    /\ pc = "start"
    /\ pc' = "done"
    /\ result' = [kind |-> "connected",
                  connected_smiles |->
                      connect_with_explicit_points(
                          n_terminal_seq,
                          parse_linker_attachment_points(linker_smiles),
                          c_terminal_seq, remove_n)]
    /\ UNCHANGED <<sequence, n_terminal_seq, linker_smiles, c_terminal_seq,
                   NH2_endpoint, remove_n, method, smiles>>

NextConnect == Connect

SpecConnect == InitConnect /\ [][NextConnect]_vars

\* C3: a marker detected in the linker does not occur in the returned string
C3_NoMarkerLeft ==
    pc = "done" =>
        /\ In(star1, linker_smiles) => ~In(star1, result.connected_smiles)
        /\ In(star2, linker_smiles) => ~In(star2, result.connected_smiles)

Min(S) == CHOOSE x \in S : \A y \in S : x <= y

\* the texts between the successive left-to-right occurrences of sep in s
RECURSIVE SplitOn(_, _)
SplitOn(s, sep) ==
    LET at == {i \in 0..Len(s) : MatchAt(s, sep, i)} IN
    IF at = {} THEN <<s>>
    ELSE <<SubSeq(s, 1, Min(at))>> \o
         SplitOn(SubSeq(s, Min(at) + Len(sep) + 1, Len(s)), sep)

RECURSIVE JoinWith(_, _)
JoinWith(segs, text) ==
    IF Len(segs) = 1 THEN segs[1]
    ELSE segs[1] \o text \o JoinWith(Tail(segs), text)

\* the premise of C4 and C8: marker '[*2]' present and cSeq non-empty
CSideCase == pc = "done" /\ In(star2, linker_smiles) /\ c_terminal_seq # << >>

\* C4: the text put in place of marker-2 is the C-side chain without its
\* leading 'N' exactly when the flag is enabled and the linker text holds
\* 'N' right before marker-2; otherwise it is the C-side chain unmodified;
\* the text around the markers is kept character by character
C4_CSide ==
    CSideCase =>
        LET c_chain == build_peptide_chain_for_connection(c_terminal_seq, "c_terminal")
            strip == remove_n = "True" /\ In(<<"N", "[", "*", "2", "]">>, linker_smiles)
            around == SplitOn(AfterNPoint(n_terminal_seq,
                                  parse_linker_attachment_points(linker_smiles)), star2)
        IN  /\ Head(c_chain) = "N"
            /\ result.connected_smiles =
                  JoinWith(around, IF strip THEN Tail(c_chain) ELSE c_chain)

C4_Witness ==
    /\ CSideCase
    /\ remove_n = "True"
    /\ linker_smiles = <<"[", "*", "1", "]", "N", "[", "*", "2", "]">>
    /\ n_terminal_seq # << >>
    /\ result.connected_smiles =
          build_peptide_chain_for_connection(n_terminal_seq, "n_terminal")
             \o build_peptide_chain_for_connection(c_terminal_seq, "c_terminal")

\* C8: with the flag enabled, no C-side chain put in place of marker-2 keeps
\* its leading 'N' right after an 'N' of the assembled string
C8_NoAdjacentN ==
    (CSideCase /\ remove_n = "True") =>
        LET info == parse_linker_attachment_points(linker_smiles)
            c_chain == build_peptide_chain_for_connection(c_terminal_seq, "c_terminal")
            inserted == CPeptideToInsert(c_chain, info, remove_n)
            around == SplitOn(AfterNPoint(n_terminal_seq, info), star2)
            \* 0-based index in the assembled string of the k-th inserted text
            StartOf(k) == Len(JoinWith(SubSeq(around, 1, k), inserted))
        IN  \A k \in 1..(Len(around) - 1) :
               ~ /\ MatchAt(result.connected_smiles, c_chain, StartOf(k))
                 /\ MatchAt(result.connected_smiles, <<"N">>, StartOf(k) - 1)

-----------------------------------------------------------------------------
(* Specification of build_structure_info, the call main() makes per row *)

\* a table key and a character outside the table
BuildChars == {"G", "X"}

\* a linker atom, the two markers, and the marker prefix '[*' on its own
BuildLinkerPieces == {<<"C">>, star1, star2, <<"[", "*">>}

Methods == {"auto", "preserved", "direct"}

Init ==
    /\ pc = "start"
    /\ n_terminal_seq \in SeqsUpTo(BuildChars, MaxTermLen)
    /\ c_terminal_seq \in SeqsUpTo(BuildChars, MaxTermLen)
    /\ linker_smiles \in Joined(BuildLinkerPieces, MaxLinkerPieces - 1)
    /\ NH2_endpoint \in Flags
    /\ remove_n \in Flags
    /\ method \in Methods
    /\ sequence = Unused /\ smiles = Unused
    /\ result = Idle

Build ==
    /\ pc = "start"
    /\ pc' = "done"
    /\ result' = build_structure_info(n_terminal_seq, linker_smiles, c_terminal_seq,
                                      NH2_endpoint, remove_n, method)
    /\ UNCHANGED <<sequence, n_terminal_seq, linker_smiles, c_terminal_seq,
                   NH2_endpoint, remove_n, method, smiles>>

Next == Build

Spec == Init /\ [][Next]_vars

HasMarker(linker) == In(star1, linker) \/ In(star2, linker)

BothValid == UnknownPositions(n_terminal_seq) = {} /\ UnknownPositions(c_terminal_seq) = {}

\* the optional amide conversion of build_structure_info
Finished(text) ==
    IF NH2_endpoint = "True" THEN convert_last_carboxyl_to_amide(text) ELSE text

\* nChain + linker text verbatim + cChain
DirectText ==
    build_peptide_chain_for_connection(n_terminal_seq, "n_terminal")
        \o linker_smiles
        \o build_peptide_chain_for_connection(c_terminal_seq, "c_terminal")

\* the output of the attachment-substitution engine
ExplicitText ==
    connect_with_explicit_points(n_terminal_seq,
        parse_linker_attachment_points(linker_smiles), c_terminal_seq, remove_n)

\* C5: with strategy auto, the substitution path is selected and reported
\* exactly when the linker holds '[*1]' or '[*2]'; for every other linker the
\* direct path is selected and reported, and the assembled string is
\* nChain + linker + cChain
C5_AutoStrategy ==
    (pc = "done" /\ method = "auto" /\ result.kind = "info") =>
        IF HasMarker(linker_smiles)
        THEN /\ result.method_used = "explicit_attachment_preserved"
             /\ result.total_structure_smiles = Finished(ExplicitText)
        ELSE /\ result.method_used = "direct_connection_preserved"
             /\ result.total_structure_smiles = Finished(DirectText)

\* C7: every request ends in a success or a failure record; it is a failure
\* exactly when a terminal sequence holds a character outside the table, and
\* the failure is then the validator's error listing the unknown characters,
\* whichever path was taken
C7_FailureIsInvalidResidue ==
    pc = "done" =>
        /\ result.kind \in {"info", "error"}
        /\ result.kind = "error" <=> ~BothValid
        /\ result.kind = "error" =>
              /\ result.error.exception = "ValueError"
              /\ result.error.args \in {InvalidResidues(n_terminal_seq),
                                        InvalidResidues(c_terminal_seq)}
              /\ result.error.args # << >>

\* C10 (as claimed): forced-explicit yields the substitution engine's output
\* for every linker, forced-direct yields nChain + linker + cChain
C10_AsClaimed ==
    (pc = "done" /\ BothValid) =>
        /\ method = "preserved" => result.total_structure_smiles = Finished(ExplicitText)
        /\ method = "direct" => result.total_structure_smiles = Finished(DirectText)

\* C10 (amended): forced-explicit yields the substitution engine's output
\* when the linker holds '[*1]' or '[*2]' and nChain + linker + cChain when
\* it holds neither; forced-direct yields nChain + linker + cChain for every
\* linker; the amide conversion follows when its flag is set
C10_Forced ==
    (pc = "done" /\ BothValid) =>
        /\ result.kind = "info"
        /\ method = "preserved" =>
              result.total_structure_smiles =
                  Finished(IF HasMarker(linker_smiles) THEN ExplicitText ELSE DirectText)
        /\ method = "direct" => result.total_structure_smiles = Finished(DirectText)

C10_Witness ==
    /\ pc = "done" /\ BothValid
    /\ method = "preserved"
    /\ ~HasMarker(linker_smiles)
    /\ n_terminal_seq # << >> /\ c_terminal_seq # << >>
    /\ result.total_structure_smiles # Finished(ExplicitText)
    /\ result.total_structure_smiles = Finished(DirectText)

=============================================================================
